---- MODULE Spec2Model ----
(***************************************************************************)
(* A model of grt, the GitHub release tool (src/grt/main.go): the commit   *)
(* reference extractor, the milestone synchroniser, the changelog renderer *)
(* and the release publisher, run against a remote repository whose        *)
(* milestones, issues, commits and releases are the state.                 *)
(*                                                                         *)
(* Strings are sequences of one-character strings, so that the regular     *)
(* expressions and the splits of the source are computed character by      *)
(* character.                                                              *)
(***************************************************************************)
EXTENDS Integers, Sequences, FiniteSets, TLC

(***************************************************************************)
(* Bounds of the model.                                                    *)
(***************************************************************************)
\* Longest input of the extractor, counted in pieces (see Pieces).
MaxPieces == 5
\* Entries on a page of a listing of the service.
PageSize == 1
\* Longest description that is wrapped, in characters.
MaxDescr == 6
\* Widest width a description is wrapped to.
MaxWidth == 4
\* Most milestones of a repository whose milestones are looked up.
MaxStones == 3

(***************************************************************************)
(* Strings.                                                                *)
(***************************************************************************)
Digits == {"0", "1", "2", "3", "4", "5", "6", "7", "8", "9"}

NL == "\n"

Range(s) == {s[i] : i \in 1..Len(s)}

DigitVal(c) ==
    CASE c = "0" -> 0 [] c = "1" -> 1 [] c = "2" -> 2 [] c = "3" -> 3
      [] c = "4" -> 4 [] c = "5" -> 5 [] c = "6" -> 6 [] c = "7" -> 7
      [] c = "8" -> 8 [] c = "9" -> 9

\* strconv.Atoi on a string of decimal digits. The digit strings of the model
\* stay far below the range of a Go int, where Atoi cannot fail.
RECURSIVE Atoi(_)
Atoi(ds) ==
    IF ds = <<>> THEN 0
    ELSE 10 * Atoi(SubSeq(ds, 1, Len(ds) - 1)) + DigitVal(ds[Len(ds)])

\* The literal lit occurs in s at index i.
MatchAt(s, i, lit) ==
    /\ i >= 1
    /\ i + Len(lit) - 1 <= Len(s)
    /\ SubSeq(s, i, i + Len(lit) - 1) = lit

\* \d+ is greedy: the index after the longest run of digits of s from index i.
RECURSIVE DigitsEnd(_, _)
DigitsEnd(s, i) ==
    IF i <= Len(s) /\ s[i] \in Digits THEN DigitsEnd(s, i + 1) ELSE i

\* The part of s before the first occurrence of the character c, all of s when
\* there is none: strings.Split(s, c)[0] and strings.SplitN(s, c, 2)[0].
RECURSIVE SplitFirst(_, _)
SplitFirst(s, c) ==
    IF s = <<>> \/ Head(s) = c THEN <<>>
    ELSE <<Head(s)>> \o SplitFirst(Tail(s), c)

(***************************************************************************)
(* getFixes: the commit reference extractor.                               *)
(***************************************************************************)
FixesLit == <<"f", "i", "x", "e", "s", " ", "#">>

\* fixesRe.FindAllStringSubmatch(msg, -1): the capture group of every
\* non-overlapping match of `fixes #(\d+)`, leftmost first, from index i on.
RECURSIVE FindAllFixes(_, _)
FindAllFixes(s, i) ==
    IF i > Len(s) THEN <<>>
    ELSE LET d == i + Len(FixesLit)
             e == DigitsEnd(s, d)
         IN  IF MatchAt(s, i, FixesLit) /\ e > d
             THEN <<SubSeq(s, d, e - 1)>> \o FindAllFixes(s, e)
             ELSE FindAllFixes(s, i + 1)

\* pullReqRe.FindStringSubmatch(msg) for `\(#(\d+)\)$`: the capture group as a
\* one-element sequence, or the empty sequence when nothing matches ($ is the
\* end of the text).
FindPullReq(s) ==
    LET starts == {i \in 1..Len(s) :
                      /\ MatchAt(s, i, <<"(", "#">>)
                      /\ DigitsEnd(s, i + 2) > i + 2
                      /\ DigitsEnd(s, i + 2) = Len(s)
                      /\ s[Len(s)] = ")"}
    IN  IF starts = {} THEN <<>>
        ELSE LET i == CHOOSE k \in starts : \A m \in starts : k <= m
             IN  <<SubSeq(s, i + 2, Len(s) - 1)>>

\* The body shared by both loops: append num unless it was seen (seen holds
\* exactly the numbers of fixes).
AddFix(fixes, num) ==
    IF num \in Range(fixes) THEN fixes ELSE Append(fixes, num)

RECURSIVE AddAllFixes(_, _)
AddAllFixes(fixes, matches) ==
    IF matches = <<>> THEN fixes
    ELSE AddAllFixes(AddFix(fixes, Atoi(Head(matches))), Tail(matches))

\* One iteration of the loop over the commits.
ScanCommit(fixes, message) ==
    LET msg == SplitFirst(message, NL)
    IN  AddAllFixes(AddAllFixes(fixes, FindAllFixes(msg, 1)), FindPullReq(msg))

RECURSIVE ScanCommits(_, _)
ScanCommits(fixes, commits) ==
    IF commits = <<>> THEN fixes
    ELSE ScanCommits(ScanCommit(fixes, Head(commits)), Tail(commits))

\* sort.Ints left out: the numbers stay in the order they were first seen.
SortInts_FirstSeen(s) == s

\* sort.Ints.
RECURSIVE InsertSorted(_, _)
InsertSorted(s, x) ==
    IF s = <<>> THEN <<x>>
    ELSE IF x <= Head(s) THEN <<x>> \o s
    ELSE <<Head(s)>> \o InsertSorted(Tail(s), x)

RECURSIVE SortInts(_)
SortInts(s) ==
    IF s = <<>> THEN <<>>
    ELSE InsertSorted(SortInts(SubSeq(s, 1, Len(s) - 1)), s[Len(s)])

getFixes(commits) == SortInts(ScanCommits(<<>>, commits))

(***************************************************************************)
(* The remote repository and the state of the running command.             *)
(***************************************************************************)
VARIABLES
    milestones,   \* the repository's milestones, in listing order
    issues,       \* issue number -> issue (pull requests are issues too)
    repoCommits,  \* the messages of the commits between --from and --to
    releases,     \* the releases created so far
    before,       \* the milestones, issues and releases when the command started
    cmd,          \* the subcommand that runs: milestone, changelog, release
    opt,          \* its options and argument
    pc,           \* the remote call the command is about to make
    ret,          \* the caller of getMilestone
    name,         \* the title getMilestone looks for
    page,         \* opts.Page of the running listing
    stone,        \* the milestone in hand, Nil for a nil pointer
    err,          \* what the command returned
    fixes,        \* getFixes(commits), the range of the loop over the issues
    fixIdx,       \* the index of that loop
    issue,        \* the issue the loop fetched
    listed,       \* the issues collected by changelog's listing loop
    out,          \* what changelog wrote
    calls,        \* the remote calls of the running command, in order
    logs          \* the lines the running command logged

remote == <<milestones, issues, repoCommits, releases>>
vars == <<milestones, issues, repoCommits, releases, before, cmd, opt, pc, ret, name, page,
          stone, err, fixes, fixIdx, issue, listed, out, calls, logs>>

Nil == [nil |-> TRUE]

NoErr == "nil"

\* The nil-safe getters of go-github: the zero value on a nil pointer.
GetNumber(m) == IF m = Nil THEN 0 ELSE m.number

GetTitle(m) == IF m = Nil THEN <<>> ELSE m.title

\* A remote call: arg is the page of a listing, the number of an issue or of a
\* milestone, 0 otherwise.
Call(op, arg, ok) == [op |-> op, arg |-> arg, ok |-> ok]

Log(text, arg) == [text |-> text, arg |-> arg]

\* What every command starts from.
Fresh ==
    /\ page = 0
    /\ ret = "none"
    /\ name = <<>>
    /\ stone = Nil
    /\ err = NoErr
    /\ fixes = <<>>
    /\ fixIdx = 0
    /\ issue = Nil
    /\ listed = <<>>
    /\ out = Nil
    /\ calls = <<>>
    /\ logs = <<>>

\* A command returns e.
Return(e) ==
    /\ pc' = "done"
    /\ err' = e

(***************************************************************************)
(* getMilestone.                                                           *)
(***************************************************************************)
\* The service's listing of a sequence in pages of PageSize: page 0 is page 1.
PageNo(p) == IF p < 1 THEN 1 ELSE p

Min(a, b) == IF a <= b THEN a ELSE b

PageOf(all, p) ==
    SubSeq(all, (PageNo(p) - 1) * PageSize + 1, Min(PageNo(p) * PageSize, Len(all)))

\* resp.NextPage: 0 on the last page.
NextPage(all, p) == IF PageNo(p) * PageSize < Len(all) THEN PageNo(p) + 1 ELSE 0

\* MilestoneListState left at the default of the service.
MilestoneListState_Open == "open"

\* opts.State of getMilestone's listing.
MilestoneListState == "all"

\* The milestones the service lists for a state filter.
RECURSIVE Select(_, _)
Select(all, state) ==
    IF all = <<>> THEN <<>>
    ELSE IF state = "all" \/ Head(all).state = state
    THEN <<Head(all)>> \o Select(Tail(all), state)
    ELSE Select(Tail(all), state)

\* The first milestone of the page stones with the title, Nil when there is none.
FindStone(stones, title) ==
    LET hits == {i \in 1..Len(stones) : GetTitle(stones[i]) = title}
    IN  IF hits = {} THEN Nil
        ELSE stones[CHOOSE i \in hits : \A j \in hits : i <= j]

\* getMilestone is entered for title on behalf of caller.
EnterGetMilestone(caller, title) ==
    /\ pc' = "listMilestones"
    /\ ret' = caller
    /\ name' = title
    /\ page' = 0

\* One iteration of getMilestone's loop: the ListMilestones call for opts.Page.
ListMilestones(ok) ==
    /\ pc = "listMilestones"
    /\ calls' = Append(calls, Call("ListMilestones", page, ok))
    /\ IF ~ok
       THEN /\ stone' = Nil
            /\ err' = "list milestones failed"
            /\ pc' = ret
            /\ page' = page
       ELSE LET all == Select(milestones, MilestoneListState)
                stones == PageOf(all, page)
                found == FindStone(stones, name)
                np == NextPage(all, page)
            IN  IF found # Nil
                THEN /\ stone' = found
                     /\ err' = NoErr
                     /\ pc' = ret
                     /\ page' = page
                ELSE IF np <= page
                THEN /\ stone' = Nil
                     /\ err' = "not found"
                     /\ pc' = ret
                     /\ page' = page
                ELSE /\ page' = np
                     /\ UNCHANGED <<stone, err, pc>>
    /\ UNCHANGED <<remote, before, cmd, opt, ret, name, fixes, fixIdx, issue, listed, out, logs>>

(***************************************************************************)
(* createMilestone: the milestone command.                                 *)
(***************************************************************************)
\* milestoneOptions.Run: the command is started with its argument and flags.
MilestoneRun(title, force, dryRun) ==
    /\ pc = "idle"
    /\ cmd' = "milestone"
    /\ opt' = [milestone |-> title, force |-> force, dryRun |-> dryRun]
    /\ EnterGetMilestone("createMilestone", title)
    /\ stone' = Nil
    /\ err' = NoErr
    /\ fixes' = <<>>
    /\ fixIdx' = 0
    /\ issue' = Nil
    /\ listed' = <<>>
    /\ out' = Nil
    /\ calls' = <<>>
    /\ logs' = <<>>
    /\ UNCHANGED <<remote, before>>

\* AfterGetMilestone with --dry-run ignored: the milestone is created anyway.
AfterGetMilestone_NoDryRun ==
    /\ pc = "createMilestone"
    /\ IF err # NoErr
       THEN /\ logs' = Append(logs, Log("Creating milestone", opt.milestone))
            /\ pc' = "callCreateMilestone"
       ELSE /\ logs' = logs
            /\ pc' = "listCommits"
    /\ UNCHANGED <<remote, before, cmd, opt, ret, name, page, stone, err, fixes, fixIdx,
                   issue, listed, out, calls>>

\* createMilestone after getMilestone returned: any error means "create it".
AfterGetMilestone ==
    /\ pc = "createMilestone"
    /\ IF err # NoErr
       THEN /\ logs' = Append(logs, Log("Creating milestone", opt.milestone))
            /\ pc' = IF opt.dryRun THEN "listCommits" ELSE "callCreateMilestone"
       ELSE /\ logs' = logs
            /\ pc' = "listCommits"
    /\ UNCHANGED <<remote, before, cmd, opt, ret, name, page, stone, err, fixes, fixIdx,
                   issue, listed, out, calls>>

\* The service numbers a new milestone after the ones it has.
NewStone(title) ==
    [title |-> title, number |-> Len(milestones) + 1, state |-> "open"]

HasTitle(title) == \E i \in 1..Len(milestones) : milestones[i].title = title

\* client.Issues.CreateMilestone. The service refuses a second milestone of the
\* same title.
CreateMilestone(ok) ==
    /\ pc = "callCreateMilestone"
    /\ ok => ~HasTitle(opt.milestone)
    /\ calls' = Append(calls, Call("CreateMilestone", 0, ok))
    /\ IF ok
       THEN /\ milestones' = Append(milestones, NewStone(opt.milestone))
            /\ stone' = NewStone(opt.milestone)
            /\ err' = NoErr
            /\ pc' = "listCommits"
       ELSE /\ Return("create milestone failed")
            /\ stone' = Nil
            /\ UNCHANGED milestones
    /\ UNCHANGED <<issues, repoCommits, releases, before, cmd, opt, ret, name, page, fixes,
                   fixIdx, issue, listed, out, logs>>

\* The loop over the issues goes on with index i, or is over.
LoopFrom(fs, i) ==
    /\ fixIdx' = i
    /\ IF i > Len(fs) THEN Return(NoErr) ELSE pc' = "getIssue" /\ err' = NoErr

\* listCommits and getFixes.
ListCommits(ok) ==
    /\ pc = "listCommits"
    /\ calls' = Append(calls, Call("CompareCommits", 0, ok))
    /\ IF ok
       THEN /\ fixes' = getFixes(repoCommits)
            /\ LoopFrom(getFixes(repoCommits), 1)
       ELSE /\ Return("listing commits")
            /\ UNCHANGED <<fixes, fixIdx>>
    /\ UNCHANGED <<remote, before, cmd, opt, ret, name, page, stone, issue, listed, out, logs>>

\* Verdict with --force ignored: an issue of another milestone is never taken over.
Verdict_IgnoreForce(got, st, force) ==
    IF got.state # "closed" THEN "is not closed; not marking"
    ELSE IF got.milestone # 0 /\ got.milestone = GetNumber(st)
    THEN "is already correctly marked"
    ELSE IF got.milestone # 0
    THEN "is already marked with another milestone"
    ELSE "Marking issue"

\* Verdict without the test of the issue's state.
Verdict_AnyState(got, st, force) ==
    IF got.milestone # 0 /\ got.milestone = GetNumber(st)
    THEN "is already correctly marked"
    ELSE IF got.milestone # 0 /\ ~force
    THEN "is already marked with another milestone"
    ELSE "Marking issue"

\* What the loop decides for a fetched issue, from its state, its milestone,
\* the milestone in hand and --force.
Verdict(got, st, force) ==
    IF got.state # "closed" THEN "is not closed; not marking"
    ELSE IF got.milestone # 0 /\ got.milestone = GetNumber(st)
    THEN "is already correctly marked"
    ELSE IF got.milestone # 0 /\ ~force
    THEN "is already marked with another milestone"
    ELSE "Marking issue"

\* GetIssue where an issue that cannot be fetched ends the command.
GetIssue_Aborts(ok) ==
    /\ pc = "getIssue"
    /\ LET fix == fixes[fixIdx]
       IN  /\ ok => fix \in DOMAIN issues
           /\ calls' = Append(calls, Call("GetIssue", fix, ok))
           /\ IF ~ok
              THEN /\ logs' = Append(logs, Log("Getting issue:", fix))
                   /\ issue' = Nil
                   /\ Return("getting issue")
                   /\ fixIdx' = fixIdx
              ELSE LET verdict == Verdict(issues[fix], stone, opt.force)
                   IN  /\ issue' = issues[fix]
                       /\ logs' = Append(logs, Log(verdict, fix))
                       /\ IF verdict = "Marking issue" /\ ~opt.dryRun
                          THEN /\ pc' = "editIssue"
                               /\ UNCHANGED <<fixIdx, err>>
                          ELSE LoopFrom(fixes, fixIdx + 1)
    /\ UNCHANGED <<remote, before, cmd, opt, ret, name, page, stone, fixes, listed, out>>

\* One iteration of the loop over the issues, up to its edit call: the issue is
\* fetched and either skipped or marked. An issue the repository does not have
\* cannot be fetched.
GetIssue(ok) ==
    /\ pc = "getIssue"
    /\ LET fix == fixes[fixIdx]
       IN  /\ ok => fix \in DOMAIN issues
           /\ calls' = Append(calls, Call("GetIssue", fix, ok))
           /\ IF ~ok
              THEN /\ logs' = Append(logs, Log("Getting issue:", fix))
                   /\ issue' = Nil
                   /\ LoopFrom(fixes, fixIdx + 1)
              ELSE LET verdict == Verdict(issues[fix], stone, opt.force)
                   IN  /\ issue' = issues[fix]
                       /\ logs' = Append(logs, Log(verdict, fix))
                       /\ IF verdict = "Marking issue" /\ ~opt.dryRun
                          THEN /\ pc' = "editIssue"
                               /\ UNCHANGED <<fixIdx, err>>
                          ELSE LoopFrom(fixes, fixIdx + 1)
    /\ UNCHANGED <<remote, before, cmd, opt, ret, name, page, stone, fixes, listed, out>>

\* client.Issues.Edit with the milestone's number.
EditIssue(ok) ==
    /\ pc = "editIssue"
    /\ calls' = Append(calls, Call("EditIssue", fixes[fixIdx], ok))
    /\ IF ok
       THEN /\ issues' = [issues EXCEPT ![fixes[fixIdx]].milestone = GetNumber(stone)]
            /\ logs' = logs
       ELSE /\ issues' = issues
            /\ logs' = Append(logs, Log("Setting milestone on issue:", fixes[fixIdx]))
    /\ LoopFrom(fixes, fixIdx + 1)
    /\ UNCHANGED <<milestones, repoCommits, releases, before, cmd, opt, ret, name, page,
                   stone, fixes, issue, listed, out>>

(***************************************************************************)
(* changelog: the changelog command, and the first half of release.        *)
(***************************************************************************)
\* strings.SplitN(release, "-", 2)[0].
MilestoneOf(release) == SplitFirst(release, "-")

\* changelogOptions.Run.
ChangelogRun(release, skipLabels) ==
    /\ pc = "idle"
    /\ cmd' = "changelog"
    /\ opt' = [release |-> release, skipLabels |-> skipLabels, dryRun |-> FALSE,
               withSubject |-> TRUE]
    /\ EnterGetMilestone("changelog", MilestoneOf(release))
    /\ UNCHANGED <<remote, before, stone, err, fixes, fixIdx, issue, listed, out, calls,
                   logs>>

\* releaseOptions.Run: --dry-run is parsed into the options.
ReleaseRun(release, skipLabels, dryRun) ==
    /\ pc = "idle"
    /\ cmd' = "release"
    /\ opt' = [release |-> release, skipLabels |-> skipLabels, dryRun |-> dryRun,
               withSubject |-> FALSE]
    /\ EnterGetMilestone("changelog", MilestoneOf(release))
    /\ UNCHANGED <<remote, before, stone, err, fixes, fixIdx, issue, listed, out, calls,
                   logs>>

\* changelog after getMilestone returned.
ChangelogAfterGet ==
    /\ pc = "changelog"
    /\ IF err # NoErr
       THEN Return("getting milestone")
       ELSE /\ pc' = "listIssues"
            /\ err' = err
    /\ page' = 0
    /\ UNCHANGED <<remote, before, cmd, opt, ret, name, stone, fixes, fixIdx, issue,
                   listed, out, calls, logs>>

\* strconv.Itoa of a number that is not negative.
RECURSIVE Itoa(_)
Itoa(n) ==
    LET d == <<"0", "1", "2", "3", "4", "5", "6", "7", "8", "9">>[(n % 10) + 1]
    IN  IF n < 10 THEN <<d>> ELSE Itoa(n \div 10) \o <<d>>

\* opts.State of changelog's listing.
IssueListState == "all"

\* The highest issue number of the repository.
TopIssue ==
    IF DOMAIN issues = {} THEN 0
    ELSE CHOOSE n \in DOMAIN issues : \A m \in DOMAIN issues : m <= n

\* The service's answer to ListByRepo: the issues of the milestone whose number
\* the filter spells, in the given state, newest first.
RECURSIVE IssuesBy(_, _, _)
IssuesBy(n, filter, state) ==
    IF n < 1 THEN <<>>
    ELSE IF /\ n \in DOMAIN issues
            /\ issues[n].milestone = Atoi(filter)
            /\ state = "all" \/ issues[n].state = state
    THEN <<[number |-> n, pr |-> issues[n].pr, labels |-> issues[n].labels]>>
         \o IssuesBy(n - 1, filter, state)
    ELSE IssuesBy(n - 1, filter, state)

\* sort.Slice by the issue's number.
RECURSIVE InsertByNumber(_, _)
InsertByNumber(s, x) ==
    IF s = <<>> THEN <<x>>
    ELSE IF x.number < Head(s).number THEN <<x>> \o s
    ELSE <<Head(s)>> \o InsertByNumber(Tail(s), x)

RECURSIVE SortByNumber(_)
SortByNumber(s) ==
    IF s = <<>> THEN <<>>
    ELSE InsertByNumber(SortByNumber(SubSeq(s, 1, Len(s) - 1)), s[Len(s)])

\* contains(s, ss), on the labels of an issue.
contains(s, ss) == s \in ss

\* Excluded with the skip list ignored.
Excluded_PullRequestsOnly(is, skipLabels) == is.pr

\* The issue is left out of the changelog: a pull request, or an issue with a
\* label of the skip list.
Excluded(is, skipLabels) ==
    is.pr \/ \E skip \in skipLabels : contains(skip, is.labels)

\* Bucket with the two labels tested in the other order.
Bucket_EnhancementFirst(is) ==
    IF contains("enhancement", is.labels) THEN "enhancements"
    ELSE IF contains("bug", is.labels) THEN "bugs"
    ELSE "other"

\* The switch over the labels: the first case that matches.
Bucket(is) ==
    IF contains("bug", is.labels) THEN "bugs"
    ELSE IF contains("enhancement", is.labels) THEN "enhancements"
    ELSE "other"

\* The numbers of the issues of one bucket, in the order of is.
RECURSIVE Partition(_, _, _)
Partition(is, skipLabels, bucket) ==
    IF is = <<>> THEN <<>>
    ELSE IF ~Excluded(Head(is), skipLabels) /\ Bucket(Head(is)) = bucket
    THEN <<Head(is).number>> \o Partition(Tail(is), skipLabels, bucket)
    ELSE Partition(Tail(is), skipLabels, bucket)

\* What changelog writes for the issues it listed: the subject and the three
\* lists.
Render(is) ==
    LET sorted == SortByNumber(is)
    IN  [subject |-> IF opt.withSubject THEN <<opt.release>> ELSE <<>>,
         bugs |-> Partition(sorted, opt.skipLabels, "bugs"),
         enhancements |-> Partition(sorted, opt.skipLabels, "enhancements"),
         other |-> Partition(sorted, opt.skipLabels, "other")]

\* One iteration of changelog's listing loop, and after the last page the rest
\* of changelog; release goes on to createRelease, which looks the milestone up
\* again.
ListByRepo(ok) ==
    /\ pc = "listIssues"
    /\ calls' = Append(calls, Call("ListByRepo", page, ok))
    /\ IF ~ok
       THEN /\ Return("listing issues")
            /\ UNCHANGED <<listed, out, page, ret, name>>
       ELSE LET all == IssuesBy(TopIssue, Itoa(GetNumber(stone)), IssueListState)
                np == NextPage(all, page)
                got == listed \o PageOf(all, page)
            IN  /\ listed' = got
                /\ IF np <= page
                   THEN /\ out' = Render(got)
                        /\ IF cmd = "release"
                           THEN /\ EnterGetMilestone("createRelease",
                                                     MilestoneOf(opt.release))
                                /\ err' = err
                           ELSE /\ Return(NoErr)
                                /\ UNCHANGED <<page, ret, name>>
                   ELSE /\ page' = np
                        /\ UNCHANGED <<out, pc, err, ret, name>>
    /\ UNCHANGED <<remote, before, cmd, opt, stone, fixes, fixIdx, issue, logs>>

(***************************************************************************)
(* createRelease: the second half of the release command.                  *)
(***************************************************************************)
\* IsPre with every release taken for a final one.
IsPre_Never(release) == FALSE

\* pre := release != milestone.
IsPre(release) == release # MilestoneOf(release)

\* createRelease after getMilestone returned.
CreateReleaseAfterGet ==
    /\ pc = "createRelease"
    /\ IF err # NoErr
       THEN Return("getting milestone")
       ELSE /\ pc' = "callCreateRelease"
            /\ err' = err
    /\ UNCHANGED <<remote, before, cmd, opt, ret, name, page, stone, fixes, fixIdx,
                   issue, listed, out, calls, logs>>

\* CreateRelease where a failure of the call is not returned.
CreateRelease_GoesOn(ok) ==
    /\ pc = "callCreateRelease"
    /\ calls' = Append(calls, Call("CreateRelease", 0, ok))
    /\ releases' = IF ok
                   THEN Append(releases,
                               [name |-> opt.release, tagName |-> opt.release,
                                body |-> out, prerelease |-> IsPre(opt.release),
                                draft |-> FALSE])
                   ELSE releases
    /\ IF ~IsPre(opt.release)
       THEN pc' = "closeMilestone" /\ err' = err
       ELSE Return(NoErr)
    /\ UNCHANGED <<milestones, issues, repoCommits, before, cmd, opt, ret, name, page,
                   stone, fixes, fixIdx, issue, listed, out, logs>>

\* client.Repositories.CreateRelease, whatever --dry-run says.
CreateRelease(ok) ==
    /\ pc = "callCreateRelease"
    /\ calls' = Append(calls, Call("CreateRelease", 0, ok))
    /\ IF ok
       THEN /\ releases' = Append(releases,
                                  [name |-> opt.release, tagName |-> opt.release,
                                   body |-> out, prerelease |-> IsPre(opt.release),
                                   draft |-> FALSE])
            /\ IF ~IsPre(opt.release)
               THEN pc' = "closeMilestone" /\ err' = err
               ELSE Return(NoErr)
       ELSE /\ releases' = releases
            /\ Return("create release failed")
    /\ UNCHANGED <<milestones, issues, repoCommits, before, cmd, opt, ret, name, page,
                   stone, fixes, fixIdx, issue, listed, out, logs>>

\* The milestones after an edit of the state of milestone number n.
WithState(n, state) ==
    [i \in 1..Len(milestones) |->
        IF milestones[i].number = n THEN [milestones[i] EXCEPT !.state = state]
        ELSE milestones[i]]

\* client.Issues.EditMilestone to the state closed.
EditMilestone(ok) ==
    /\ pc = "closeMilestone"
    /\ calls' = Append(calls, Call("EditMilestone", GetNumber(stone), ok))
    /\ IF ok
       THEN /\ milestones' = WithState(GetNumber(stone), "closed")
            /\ Return(NoErr)
       ELSE /\ milestones' = milestones
            /\ Return("closing milestone")
    /\ UNCHANGED <<issues, repoCommits, releases, before, cmd, opt, ret, name, page,
                   stone, fixes, fixIdx, issue, listed, out, logs>>

(***************************************************************************)
(* The repositories and the command lines of the model.                    *)
(***************************************************************************)
V1 == <<"v", "1">>

V2 == <<"v", "2">>

Titles == {V1, V2}

\* The titles the milestone command is run for.
SyncTitles == {V1}

Stone(t, n, st) == [title |-> t, number |-> n, state |-> st]

\* The milestones a repository starts with: titles are unique, numbers are
\* given in the order of creation.
StoneLists ==
    LET raw == UNION {[1..n -> Titles \X {"open", "closed"}] : n \in 0..2}
    IN  {[i \in 1..Len(r) |-> Stone(r[i][1], i, r[i][2])] :
            r \in {q \in raw : \A i, j \in 1..Len(q) : q[i][1] = q[j][1] => i = j}}

IssueNumbers == {1, 2}

Issue(st, m, pr, ls) == [state |-> st, milestone |-> m, pr |-> pr, labels |-> ls]

\* The issues of a repository of n milestones, without labels.
PlainIssues(n) ==
    {Issue(st, m, pr, {}) : st \in {"open", "closed"}, m \in 0..n, pr \in BOOLEAN}

Fixes(d) == FixesLit \o <<d>>

PullRef(d) == <<"(", "#", d, ")">>

\* The commit ranges the milestone command is run on.
SyncCommits ==
    { <<>>,
      <<Fixes("1")>>,
      <<<<"x", " ">> \o PullRef("2"), Fixes("1")>>,
      <<Fixes("2") \o <<" ">> \o Fixes("3")>>,
      <<<<"x", NL>> \o Fixes("1"), Fixes("2") \o <<" ">> \o PullRef("2")>> }

InitLocal ==
    /\ before = [milestones |-> milestones, issues |-> issues, releases |-> releases,
                 prev |-> <<>>]
    /\ cmd = "none"
    /\ opt = Nil
    /\ pc = "idle"
    /\ Fresh

Init ==
    /\ milestones \in StoneLists
    /\ issues \in [IssueNumbers -> PlainIssues(Len(milestones))]
    /\ repoCommits \in SyncCommits
    /\ releases = <<>>
    /\ InitLocal

Next ==
    \/ \E t \in SyncTitles, force, dryRun \in BOOLEAN : MilestoneRun(t, force, dryRun)
    \/ \E ok \in BOOLEAN : ListMilestones(ok)
    \/ AfterGetMilestone
    \/ \E ok \in BOOLEAN : CreateMilestone(ok)
    \/ \E ok \in BOOLEAN : ListCommits(ok)
    \/ \E ok \in BOOLEAN : GetIssue(ok)
    \/ \E ok \in BOOLEAN : EditIssue(ok)

Spec == Init /\ [][Next]_vars

(***************************************************************************)
(* The changelog and the release commands on a repository with labels.     *)
(***************************************************************************)
V1RC == <<"v", "1", "-", "r", "-", "c">>

ReleaseNames == {V1, V1RC}

LabelSets == {{}, {"bug"}, {"enhancement"}, {"bug", "enhancement"}, {"wontfix"}}

SkipLists == {{}, {"wontfix"}, {"bug"}}

ReleaseStoneLists ==
    { <<>>,
      <<Stone(V1, 1, "open")>>,
      <<Stone(V2, 1, "closed"), Stone(V1, 2, "open")>> }

LabelledIssues(n) ==
    {Issue(st, m, pr, ls) :
        st \in {"open", "closed"}, m \in 0..n, pr \in BOOLEAN, ls \in LabelSets}

InitRelease ==
    /\ milestones \in ReleaseStoneLists
    /\ issues \in [IssueNumbers -> LabelledIssues(Len(milestones))]
    /\ repoCommits = <<>>
    /\ releases = <<>>
    /\ InitLocal

NextRelease ==
    \/ \E r \in ReleaseNames, skip \in SkipLists : ChangelogRun(r, skip)
    \/ \E r \in ReleaseNames, skip \in SkipLists, dryRun \in BOOLEAN :
          ReleaseRun(r, skip, dryRun)
    \/ \E ok \in BOOLEAN : ListMilestones(ok)
    \/ ChangelogAfterGet
    \/ \E ok \in BOOLEAN : ListByRepo(ok)
    \/ CreateReleaseAfterGet
    \/ \E ok \in BOOLEAN : CreateRelease(ok)
    \/ \E ok \in BOOLEAN : EditMilestone(ok)

SpecRelease == InitRelease /\ [][NextRelease]_vars

(***************************************************************************)
(* getMilestone over listings of several pages, called by changelog.       *)
(***************************************************************************)
V3 == <<"v", "3">>

LookupTitles == {V1, V2, V3}

\* The milestones of a repository: up to MaxStones of them, of unique titles,
\* open or closed, numbered in the order of creation.
LookupStoneLists ==
    LET raw == UNION {[1..n -> LookupTitles \X {"open", "closed"}] : n \in 0..MaxStones}
    IN  {[i \in 1..Len(r) |-> Stone(r[i][1], i, r[i][2])] :
            r \in {q \in raw : \A i, j \in 1..Len(q) : q[i][1] = q[j][1] => i = j}}

InitLookup ==
    /\ milestones \in LookupStoneLists
    /\ issues = <<>>
    /\ repoCommits = <<>>
    /\ releases = <<>>
    /\ InitLocal

NextLookup ==
    \/ \E r \in {V1, V1RC} : ChangelogRun(r, {})
    \/ \E ok \in BOOLEAN : ListMilestones(ok)
    \/ ChangelogAfterGet
    \/ \E ok \in BOOLEAN : ListByRepo(ok)

\* The command is one sequential process: it takes its next step.
SpecLookup == InitLookup /\ [][NextLookup]_vars /\ WF_vars(NextLookup)

(***************************************************************************)
(* Two commands, one after the other, on the same repository.              *)
(***************************************************************************)
\* main returns: the process of the first command is gone, the repository
\* stays as it left it, and the next command starts from a new process.
Exit ==
    /\ pc = "done"
    /\ before.prev = <<>>
    /\ before' = [milestones |-> milestones, issues |-> issues, releases |-> releases,
                  prev |-> <<[cmd |-> cmd, opt |-> opt, err |-> err, calls |-> calls]>>]
    /\ pc' = "idle"
    /\ page' = 0
    /\ ret' = "none"
    /\ name' = <<>>
    /\ stone' = Nil
    /\ err' = NoErr
    /\ fixes' = <<>>
    /\ fixIdx' = 0
    /\ issue' = Nil
    /\ listed' = <<>>
    /\ out' = Nil
    /\ calls' = <<>>
    /\ logs' = <<>>
    /\ UNCHANGED <<remote, cmd, opt>>

TwiceStoneLists ==
    { <<>>,
      <<Stone(V2, 1, "open")>>,
      <<Stone(V2, 1, "open"), Stone(V1, 2, "closed")>> }

InitTwice ==
    /\ milestones \in TwiceStoneLists
    /\ issues \in [IssueNumbers -> PlainIssues(Len(milestones))]
    /\ repoCommits \in SyncCommits
    /\ releases = <<>>
    /\ InitLocal

\* The milestone command, without --dry-run, twice.
NextTwice ==
    \/ \E t \in SyncTitles, force \in BOOLEAN : MilestoneRun(t, force, FALSE)
    \/ \E ok \in BOOLEAN : ListMilestones(ok)
    \/ AfterGetMilestone
    \/ \E ok \in BOOLEAN : CreateMilestone(ok)
    \/ \E ok \in BOOLEAN : ListCommits(ok)
    \/ \E ok \in BOOLEAN : GetIssue(ok)
    \/ \E ok \in BOOLEAN : EditIssue(ok)
    \/ Exit

SpecTwice == InitTwice /\ [][NextTwice]_vars

\* The titles the milestone command is run for before a changelog or a release.
ThenTitles == {V1, V1RC}

InitThen ==
    /\ milestones \in {<<>>, <<Stone(V1, 1, "open")>>, <<Stone(V2, 1, "closed")>>}
    /\ issues \in [{1} -> PlainIssues(Len(milestones))]
    /\ repoCommits \in {<<>>, <<Fixes("1")>>}
    /\ releases = <<>>
    /\ InitLocal

\* The milestone command, then the changelog or the release command.
NextThen ==
    \/ \E t \in ThenTitles : MilestoneRun(t, FALSE, FALSE)
    \/ \E ok \in BOOLEAN : ListMilestones(ok)
    \/ AfterGetMilestone
    \/ \E ok \in BOOLEAN : CreateMilestone(ok)
    \/ \E ok \in BOOLEAN : ListCommits(ok)
    \/ \E ok \in BOOLEAN : GetIssue(ok)
    \/ \E ok \in BOOLEAN : EditIssue(ok)
    \/ Exit
    \/ \E r \in ThenTitles : ChangelogRun(r, {})
    \/ \E r \in ThenTitles : ReleaseRun(r, {}, FALSE)
    \/ ChangelogAfterGet
    \/ \E ok \in BOOLEAN : ListByRepo(ok)
    \/ CreateReleaseAfterGet
    \/ \E ok \in BOOLEAN : CreateRelease(ok)
    \/ \E ok \in BOOLEAN : EditMilestone(ok)

SpecThen == InitThen /\ [][NextThen]_vars

(***************************************************************************)
(* The extractor on its own: getFixes applied to a list of commits.        *)
(***************************************************************************)
\* What commit messages are put together from; "|" ends a commit.
Pieces == {"fixes #", "1", "2", "(#", ")", "nl", "|"}

Expand(piece) ==
    CASE piece = "fixes #" -> FixesLit
      [] piece = "(#" -> <<"(", "#">>
      [] piece = "nl" -> <<NL>>
      [] OTHER -> <<piece>>

\* The commits a sequence of pieces spells: cur is the message being spelled,
\* acc the commits before it.
RECURSIVE Spell(_, _, _)
Spell(ps, cur, acc) ==
    IF ps = <<>> THEN (IF cur = <<>> THEN acc ELSE Append(acc, cur))
    ELSE IF Head(ps) = "|" THEN Spell(Tail(ps), <<>>, Append(acc, cur))
    ELSE Spell(Tail(ps), cur \o Expand(Head(ps)), acc)

ExtractorInputs ==
    {Spell(ps, <<>>, <<>>) : ps \in UNION {[1..n -> Pieces] : n \in 0..MaxPieces}}

InitFixes ==
    /\ milestones = <<>>
    /\ issues = <<>>
    /\ repoCommits \in ExtractorInputs
    /\ releases = <<>>
    /\ InitLocal

\* getFixes is applied to the commits.
RunGetFixes ==
    /\ pc = "idle"
    /\ cmd' = "getFixes"
    /\ fixes' = getFixes(repoCommits)
    /\ pc' = "done"
    /\ UNCHANGED <<remote, before, opt, ret, name, page, stone, err, fixIdx, issue,
                   listed, out, calls, logs>>

NextFixes == RunGetFixes

SpecFixes == InitFixes /\ [][NextFixes]_vars

(***************************************************************************)
(* wrap and wrapParagraph: the word wrap of the milestone's description.   *)
(***************************************************************************)
\* The white space of strings.Fields among the characters of the model.
IsSpace(c) == c \in {" ", NL}

\* strings.Fields(s): the words of s; cur is the word being read, acc the words
\* before it.
RECURSIVE FieldsFrom(_, _, _)
FieldsFrom(s, cur, acc) ==
    IF s = <<>> THEN (IF cur = <<>> THEN acc ELSE Append(acc, cur))
    ELSE IF IsSpace(Head(s))
    THEN FieldsFrom(Tail(s), <<>>, IF cur = <<>> THEN acc ELSE Append(acc, cur))
    ELSE FieldsFrom(Tail(s), Append(cur, Head(s)), acc)

Fields(s) == FieldsFrom(s, <<>>, <<>>)

\* strings.Split(s, "\n"): the lines of s, empty ones too.
RECURSIVE SplitLinesFrom(_, _, _)
SplitLinesFrom(s, cur, acc) ==
    IF s = <<>> THEN Append(acc, cur)
    ELSE IF Head(s) = NL THEN SplitLinesFrom(Tail(s), <<>>, Append(acc, cur))
    ELSE SplitLinesFrom(Tail(s), Append(cur, Head(s)), acc)

SplitLines(s) == SplitLinesFrom(s, <<>>, <<>>)

\* Pref1 without the indent of a bullet paragraph.
Pref1_None(words) == <<>>

\* pref1: the indent of the continuation lines.
Pref1(words) == IF words[1] \in {<<"-">>, <<"*">>} THEN <<" ", " ">> ELSE <<>>

\* The loop of wrapParagraph over the words: b is what was written, l the
\* length of the line being written.
RECURSIVE WrapWords(_, _, _, _, _)
WrapWords(words, pref1, w, b, l) ==
    IF words = <<>> THEN b
    ELSE LET word == Head(words)
             b1 == IF l > 0 THEN Append(b, " ") ELSE b
             l1 == IF l > 0 THEN l + 1 ELSE l
             brk == l1 + Len(word) > w
             b2 == IF brk THEN Append(b1, NL) \o pref1 ELSE b1
             l2 == IF brk THEN Len(pref1) ELSE l1
         IN  WrapWords(Tail(words), pref1, w, b2 \o word, l2 + Len(word))

wrapParagraph(s, w) ==
    LET words == Fields(s)
    IN  IF Len(words) = 0 THEN <<>>
        ELSE WrapWords(words, Pref1(words), w, <<>>, 0)

\* The loop of wrap over the lines, from line i on.
RECURSIVE WrapLines(_, _, _)
WrapLines(lines, i, w) ==
    IF i > Len(lines) THEN <<>>
    ELSE (IF i > 1 THEN <<NL>> ELSE <<>>) \o wrapParagraph(lines[i], w)
         \o WrapLines(lines, i + 1, w)

wrap(s, w) == WrapLines(SplitLines(s), 1, w)

\* The characters descriptions are written with.
DescrChars == {"a", "-", "*", " ", NL}

Descriptions == UNION {[1..n -> DescrChars] : n \in 0..MaxDescr}

Widths == 2..MaxWidth

InitWrap ==
    /\ milestones = <<>>
    /\ issues = <<>>
    /\ repoCommits = <<>>
    /\ releases = <<>>
    /\ before = [milestones |-> milestones, issues |-> issues, releases |-> releases]
    /\ cmd = "none"
    /\ opt \in [descr : Descriptions, w : Widths]
    /\ pc = "idle"
    /\ Fresh

\* wrap is applied to the description.
RunWrap ==
    /\ pc = "idle"
    /\ cmd' = "wrap"
    /\ out' = wrap(opt.descr, opt.w)
    /\ pc' = "done"
    /\ UNCHANGED <<remote, before, opt, ret, name, page, stone, err, fixes, fixIdx,
                   issue, listed, calls, logs>>

\* wrapParagraph is applied to the description.
RunWrapParagraph ==
    /\ pc = "idle"
    /\ cmd' = "wrapParagraph"
    /\ out' = wrapParagraph(opt.descr, opt.w)
    /\ pc' = "done"
    /\ UNCHANGED <<remote, before, opt, ret, name, page, stone, err, fixes, fixIdx,
                   issue, listed, calls, logs>>

NextWrap == RunWrap \/ RunWrapParagraph

SpecWrap == InitWrap /\ [][NextWrap]_vars

(***************************************************************************)
(* What the claims speak of.                                               *)
(***************************************************************************)
\* The index of the last character of the subject, the first line of message.
SubjectEnd(message) ==
    LET nls == {i \in 1..Len(message) : message[i] = NL}
    IN  IF nls = {} THEN Len(message)
        ELSE (CHOOSE i \in nls : \A j \in nls : i <= j) - 1

AllDigits(s, from, to) == from <= to /\ \A k \in from..to : s[k] \in Digits

\* The numbers N such that the subject of message contains "fixes #N" or ends
\* with "(#N)".
SubjectRefs(message) ==
    LET e == SubjectEnd(message)
        lit == Len(FixesLit)
    IN  {Atoi(SubSeq(message, p[1] + lit, p[2])) :
            p \in {q \in (1..e) \X (1..e) :
                      /\ MatchAt(message, q[1], FixesLit)
                      /\ AllDigits(message, q[1] + lit, q[2])
                      /\ (q[2] = e \/ message[q[2] + 1] \notin Digits)}}
        \cup
        {Atoi(SubSeq(message, i + 2, e - 1)) :
            i \in {k \in 1..e :
                      /\ k + 1 <= e
                      /\ message[k] = "(" /\ message[k + 1] = "#"
                      /\ AllDigits(message, k + 2, e - 1)
                      /\ message[e] = ")"}}

RefNumbers(commits) == UNION {SubjectRefs(commits[k]) : k \in 1..Len(commits)}

CallsOf(op) == {i \in 1..Len(calls) : calls[i].op = op}

Mutating == {"CreateMilestone", "EditIssue", "CreateRelease", "EditMilestone"}

NoFailure == \A i \in 1..Len(calls) : calls[i].ok

\* The number of the milestone titled title among stones, 0 when there is none.
NumberOf(stones, title) ==
    LET hits == {i \in 1..Len(stones) : stones[i].title = title}
    IN  IF hits = {} THEN 0 ELSE stones[CHOOSE i \in hits : TRUE].number

SyncDone == cmd = "milestone" /\ pc = "done"

(***************************************************************************)
(* The milestone command.                                                  *)
(***************************************************************************)
\* C1: when a milestone sync that is no dry run has returned without any
\* failure of a remote call, a milestone of the given title exists and every
\* closed issue that a commit subject of the range refers to carries its
\* number, provided --force was given or the issue carried no other milestone
\* when the command started.
C1_SyncAssignsMilestone ==
    (SyncDone /\ ~opt.dryRun /\ err = NoErr /\ NoFailure) =>
        LET id == NumberOf(milestones, opt.milestone)
        IN  /\ id # 0
            /\ \A n \in RefNumbers(repoCommits) \cap DOMAIN issues :
                  (/\ issues[n].state = "closed"
                   /\ opt.force \/ before.issues[n].milestone \in {0, id})
                  => issues[n].milestone = id

\* A sync without failure created the milestone and moved an issue over to it
\* from another milestone.
C1_Witness ==
    /\ SyncDone /\ ~opt.dryRun /\ err = NoErr /\ NoFailure
    /\ CallsOf("CreateMilestone") # {}
    /\ \E n \in RefNumbers(repoCommits) \cap DOMAIN issues :
          /\ before.issues[n].milestone # 0
          /\ issues[n].milestone = NumberOf(milestones, opt.milestone)

\* The issue carries a milestone other than the one titled title.
CarriesOther(is, title) ==
    is.milestone # 0 /\ is.milestone # NumberOf(milestones, title)

\* C2: an edit-issue call is made for an issue only if the issue was fetched,
\* is closed, does not carry this milestone already, and carries no milestone
\* or --force was given; an open issue, and an issue of another milestone
\* without --force, keeps the milestone it had.
C2_EditOnlyEligible ==
    cmd = "milestone" =>
        /\ \A i \in CallsOf("EditIssue") :
              LET n == calls[i].arg
              IN  /\ \E j \in 1..(i - 1) : calls[j].op = "GetIssue"
                                           /\ calls[j].arg = n /\ calls[j].ok
                  /\ before.issues[n].state = "closed"
                  /\ before.issues[n].milestone # GetNumber(stone)
                  /\ before.issues[n].milestone = 0 \/ opt.force
        /\ \A n \in DOMAIN issues :
              (\/ before.issues[n].state = "open"
               \/ CarriesOther(before.issues[n], opt.milestone) /\ ~opt.force)
              => issues[n].milestone = before.issues[n].milestone

\* An issue was edited, and a referenced open issue and a referenced issue of
\* another milestone were left alone.
C2_Witness ==
    /\ SyncDone /\ ~opt.force
    /\ \E i \in CallsOf("EditIssue") : calls[i].ok
    /\ \E i \in CallsOf("GetIssue") :
          /\ calls[i].ok
          /\ \/ before.issues[calls[i].arg].state = "open"
             \/ CarriesOther(before.issues[calls[i].arg], opt.milestone)

\* C3: a referenced number that is a pull request is skipped, no edit-issue
\* call is made for it, whatever its state, its milestone and --force.
C3_PullRequestNeverEdited ==
    cmd = "milestone" => \A i \in CallsOf("EditIssue") : ~issues[calls[i].arg].pr

\* The lines of the log with the text and the argument.
Logged(text, arg) == {i \in 1..Len(logs) : logs[i].text = text /\ logs[i].arg = arg}

\* The issue n is one the sync assigns: referenced, fetched, closed, and without
\* a milestone unless --force was given.
WouldAssign(n) ==
    /\ n \in RefNumbers(repoCommits) \cap DOMAIN issues
    /\ \E i \in CallsOf("GetIssue") : calls[i].arg = n /\ calls[i].ok
    /\ before.issues[n].state = "closed"
    /\ before.issues[n].milestone = 0 \/ opt.force

\* The issues the log has an assignment for.
Marked == {logs[i].arg : i \in {j \in 1..Len(logs) : logs[j].text = "Marking issue"}}

DryRunAbsent ==
    cmd = "milestone" /\ opt.dryRun /\ NumberOf(before.milestones, opt.milestone) = 0

\* C4: a dry run of the sync on a repository without a milestone of the title
\* makes no mutating call, returns without an error once the commits were
\* listed, and has logged the creation of the milestone once and one
\* assignment for each issue it would have assigned.
C4_DryRunOnlyLogs ==
    DryRunAbsent =>
        /\ \A i \in 1..Len(calls) : calls[i].op \notin Mutating
        /\ milestones = before.milestones /\ issues = before.issues
        /\ (pc = "done" /\ \E i \in CallsOf("CompareCommits") : calls[i].ok) =>
              /\ err = NoErr
              /\ Cardinality(Logged("Creating milestone", opt.milestone)) = 1
              /\ Marked = {n \in DOMAIN issues : WouldAssign(n)}
              /\ \A n \in Marked : Cardinality(Logged("Marking issue", n)) = 1

\* A dry run without the milestone ended and logged an assignment.
C4_Witness ==
    /\ DryRunAbsent /\ pc = "done" /\ err = NoErr
    /\ \E n \in DOMAIN issues : WouldAssign(n) /\ before.issues[n].milestone # 0

(***************************************************************************)
(* The extractor.                                                          *)
(***************************************************************************)
\* C8: for any commit messages getFixes returns a strictly ascending sequence,
\* so one without duplicates, whose elements are exactly the numbers N such
\* that the first line of some message contains "fixes #N" or ends with
\* "(#N)"; what later lines refer to is not among them.
C8_ExtractorSortedExact ==
    (cmd = "getFixes" /\ pc = "done") =>
        /\ \A i, j \in 1..Len(fixes) : i < j => fixes[i] < fixes[j]
        /\ Range(fixes) = RefNumbers(repoCommits)

\* Two commits refer to two numbers in descending order.
C8_Witness ==
    /\ cmd = "getFixes" /\ pc = "done"
    /\ Len(repoCommits) = 2
    /\ Len(fixes) = 2
    /\ ScanCommits(<<>>, repoCommits) # fixes

(***************************************************************************)
(* The release command.                                                    *)
(***************************************************************************)
\* C5: --dry-run suppresses the mutating calls of every command that takes it:
\* a release run with --dry-run makes no create-release and no edit-milestone
\* call, and leaves the releases and the milestones as they were.
C5_DryRunReleaseMutatesNothing ==
    (cmd = "release" /\ opt.dryRun) =>
        /\ \A i \in 1..Len(calls) : calls[i].op \notin Mutating
        /\ releases = before.releases
        /\ milestones = before.milestones

\* m is the part of r before its first "-": a prefix of r without a "-" that
\* is all of r or is followed by a "-".
IsPartBeforeDash(m, r) ==
    /\ Len(m) <= Len(r)
    /\ m = SubSeq(r, 1, Len(m))
    /\ "-" \notin Range(m)
    /\ Len(m) = Len(r) \/ r[Len(m) + 1] = "-"

\* The releases the running command created.
Created == {releases[i] : i \in (Len(before.releases) + 1)..Len(releases)}

\* C6: the release publisher looks up the milestone M that is the part of the
\* release name R before the first "-", creates the release R with
\* prerelease = (R # M) and draft = false, and closes the milestone M if and
\* only if R = M: a prerelease leaves the milestones as they were.
C6_PrereleaseIffNameDiffers ==
    cmd = "release" =>
        /\ pc = "listMilestones" => IsPartBeforeDash(name, opt.release)
        /\ \A rel \in Created :
              /\ rel.name = opt.release /\ rel.tagName = opt.release
              /\ rel.prerelease = ~IsPartBeforeDash(opt.release, opt.release)
              /\ rel.draft = FALSE
        /\ \A i \in CallsOf("EditMilestone") :
              /\ IsPartBeforeDash(opt.release, opt.release)
              /\ calls[i].arg = NumberOf(milestones, opt.release)
        /\ (pc = "done" /\ err = NoErr) =>
              /\ Cardinality(Created) = 1
              /\ IF IsPartBeforeDash(opt.release, opt.release)
                 THEN /\ \E i \in CallsOf("EditMilestone") : calls[i].ok
                      /\ \E i \in 1..Len(milestones) :
                            /\ milestones[i].title = opt.release
                            /\ milestones[i].state = "closed"
                 ELSE /\ CallsOf("EditMilestone") = {}
                      /\ milestones = before.milestones

\* A prerelease was published for an open milestone, which stays open.
C6_Witness ==
    /\ cmd = "release" /\ pc = "done" /\ err = NoErr
    /\ \E rel \in Created : rel.prerelease
    /\ \E i \in 1..Len(milestones) :
          milestones[i].title = name /\ milestones[i].state = "open"

\* C7: in the release command a failure of a remote call ends the command
\* with an error and no call follows it: no release is created when the
\* lookup of the milestone or the listing of the issues failed, and the
\* milestone is closed only after the release was created.
C7_ReleaseAbortsOnFailure ==
    cmd = "release" =>
        /\ \A i \in 1..Len(calls) :
              ~calls[i].ok => /\ i = Len(calls)
                              /\ err # NoErr
                              /\ pc \in {"changelog", "createRelease", "done"}
        /\ (pc = "done" /\ err # NoErr /\ CallsOf("CreateRelease") = {}) =>
              releases = before.releases /\ milestones = before.milestones
        /\ \A i \in CallsOf("CreateRelease") :
              /\ \A j \in 1..(i - 1) : calls[j].ok
              /\ \E j \in 1..(i - 1) : calls[j].op = "ListByRepo"
              /\ ~calls[i].ok => releases = before.releases
        /\ \A i \in CallsOf("EditMilestone") :
              \E j \in 1..(i - 1) : calls[j].op = "CreateRelease" /\ calls[j].ok
        /\ (\A i \in CallsOf("CreateRelease") : ~calls[i].ok) =>
              milestones = before.milestones

\* The creation of a final release failed: the milestone stays open.
C7_Witness ==
    /\ cmd = "release" /\ pc = "done" /\ err # NoErr
    /\ ~IsPre(opt.release)
    /\ \E i \in CallsOf("CreateRelease") : ~calls[i].ok
    /\ \E i \in 1..Len(milestones) :
          milestones[i].title = name /\ milestones[i].state = "open"

(***************************************************************************)
(* The changelog.                                                          *)
(***************************************************************************)
\* changelog has written its lists.
Rendered == cmd \in {"changelog", "release"} /\ out # Nil

\* How often the number n is in the sequence s.
Count(s, n) == Cardinality({i \in 1..Len(s) : s[i] = n})

\* The issues of the milestone that changelog was run for.
OfMilestone ==
    {n \in DOMAIN issues :
        \E i \in 1..Len(milestones) :
            /\ IsPartBeforeDash(milestones[i].title, opt.release)
            /\ before.issues[n].milestone = milestones[i].number}

IsExcluded(n) ==
    before.issues[n].pr \/ before.issues[n].labels \cap opt.skipLabels # {}

\* C9: every issue of the milestone that is not excluded is in exactly one of
\* the three lists, once: in Bugfixes when it is labelled bug, in Enhancements
\* when it is labelled enhancement and not bug, in Other otherwise.
C9_FirstMatchingBucket ==
    Rendered =>
        \A n \in OfMilestone : ~IsExcluded(n) =>
            LET ls == before.issues[n].labels
                home == CASE "bug" \in ls -> "bugs"
                          [] "bug" \notin ls /\ "enhancement" \in ls -> "enhancements"
                          [] OTHER -> "other"
            IN  /\ Count(out.bugs, n) = (IF home = "bugs" THEN 1 ELSE 0)
                /\ Count(out.enhancements, n) = (IF home = "enhancements" THEN 1 ELSE 0)
                /\ Count(out.other, n) = (IF home = "other" THEN 1 ELSE 0)

\* An issue with both labels is listed under Bugfixes, next to another issue.
C9_Witness ==
    /\ Rendered
    /\ \E n \in OfMilestone :
          /\ before.issues[n].labels = {"bug", "enhancement"}
          /\ n \in Range(out.bugs)
    /\ Len(out.bugs) + Len(out.enhancements) + Len(out.other) = 2

InSomeBucket(n) == n \in Range(out.bugs) \cup Range(out.enhancements) \cup Range(out.other)

\* C10: an issue of the milestone that is a pull request, or has a label of
\* the skip list, is in none of the lists, also when that label is bug or
\* enhancement; an issue of the milestone with neither is in one.
C10_ExcludedNeverListed ==
    Rendered => \A n \in OfMilestone : InSomeBucket(n) <=> ~IsExcluded(n)

\* An issue labelled bug is left out because bug is in the skip list, while
\* another issue is listed.
C10_Witness ==
    /\ Rendered
    /\ "bug" \in opt.skipLabels
    /\ \E n, m \in OfMilestone :
          /\ "bug" \in before.issues[n].labels /\ ~before.issues[n].pr
          /\ ~InSomeBucket(n)
          /\ InSomeBucket(m)

(***************************************************************************)
(* The word wrap.                                                          *)
(***************************************************************************)
\* The characters i..j of s are a stretch without a character of stop.
Stretch(s, i, j, stop) == i <= j /\ \A k \in i..j : s[k] \notin stop

\* Every word of s is shorter than w: no w characters in a row without white
\* space.
WordsShorter(s, w) ==
    \A i \in 1..Len(s) : i + w - 1 <= Len(s) => ~Stretch(s, i, i + w - 1, {" ", NL})

\* C11: for a description whose words are all shorter than the width w, no
\* line of wrap(description, w) is longer than w characters, the indent and a
\* trailing space counted, for plain and for bullet paragraphs.
C11_NoLineBeyondWidth ==
    (cmd = "wrap" /\ pc = "done" /\ WordsShorter(opt.descr, opt.w)) =>
        \A i, j \in 1..Len(out) : Stretch(out, i, j, {NL}) => j - i + 1 <= opt.w

\* The first word of s is "-" or "*".
IsBullet(s) ==
    \E i \in 1..Len(s) :
        /\ s[i] \in {"-", "*"}
        /\ \A k \in 1..(i - 1) : s[k] \in {" ", NL}
        /\ i = Len(s) \/ s[i + 1] \in {" ", NL}

\* The indexes of out at which a continuation line starts.
Continuations == {p + 1 : p \in {q \in 1..Len(out) : out[q] = NL}}

\* C17: in the output of wrapParagraph every line after the first starts with
\* exactly two spaces followed by a word when the first word of the paragraph
\* is "-" or "*", and with a word, without indent, otherwise.
C17_ContinuationIndent ==
    (cmd = "wrapParagraph" /\ pc = "done") =>
        \A p \in Continuations :
            IF IsBullet(opt.descr)
            THEN /\ p + 2 <= Len(out)
                 /\ out[p] = " " /\ out[p + 1] = " "
                 /\ out[p + 2] \notin {" ", NL}
            ELSE /\ p <= Len(out)
                 /\ out[p] \notin {" ", NL}

\* A bullet paragraph was wrapped onto a second line.
C17_Witness ==
    /\ cmd = "wrapParagraph" /\ pc = "done"
    /\ IsBullet(opt.descr)
    /\ Continuations # {}
    /\ WordsShorter(opt.descr, opt.w)

(***************************************************************************)
(* The failures of the milestone command.                                  *)
(***************************************************************************)
\* The numbers of the issues a call of op was made for.
ArgsOf(op) == {calls[i].arg : i \in CallsOf(op)}

\* The call of op for n succeeded.
Succeeded(op, n) == \E i \in CallsOf(op) : calls[i].arg = n /\ calls[i].ok

\* The issue n, once fetched, is one the loop marks.
Eligible(n) ==
    /\ before.issues[n].state = "closed"
    /\ before.issues[n].milestone # GetNumber(stone)
    /\ before.issues[n].milestone = 0 \/ opt.force

\* C12: a failure to fetch or to edit one issue is logged and does not end the
\* batch: every referenced issue is fetched, and edited when it is eligible,
\* whatever happened to the ones before it; a failure to create the milestone
\* or to list the commits ends the command with an error before any call for
\* an issue.
C12_IssueFailuresDoNotAbort ==
    SyncDone =>
        IF Succeeded("CompareCommits", 0)
        THEN /\ err = NoErr
             /\ ArgsOf("GetIssue") = RefNumbers(repoCommits)
             /\ \A i \in CallsOf("GetIssue") :
                   ~calls[i].ok => Logged("Getting issue:", calls[i].arg) # {}
             /\ \A i \in CallsOf("EditIssue") :
                   ~calls[i].ok => Logged("Setting milestone on issue:", calls[i].arg) # {}
             /\ ~opt.dryRun =>
                   \A n \in DOMAIN issues :
                       /\ (Succeeded("GetIssue", n) /\ Eligible(n)) => n \in ArgsOf("EditIssue")
                       /\ Succeeded("EditIssue", n) => issues[n].milestone = GetNumber(stone)
        ELSE /\ err # NoErr
             /\ CallsOf("GetIssue") = {} /\ CallsOf("EditIssue") = {}
             /\ issues = before.issues

\* The first issue could not be fetched, or not be edited, and a later one was
\* assigned.
C12_Witness ==
    /\ SyncDone
    /\ \E i \in CallsOf("GetIssue") \cup CallsOf("EditIssue") :
          /\ ~calls[i].ok
          /\ \E j \in CallsOf("EditIssue") :
                j > i /\ calls[j].ok /\ calls[j].arg # calls[i].arg

(***************************************************************************)
(* getMilestone.                                                           *)
(***************************************************************************)
\* getMilestone has returned to changelog, and no listing failed.
Returned == cmd = "changelog" /\ pc = "changelog" /\ NoFailure

\* The pages getMilestone asked for, in order.
PagesAsked == [i \in 1..Len(calls) |-> calls[i].arg]

\* The service has no page after page p of a listing of n entries.
IsLastPage(p, n) == (IF p < 1 THEN 1 ELSE p) * PageSize >= n

\* What getMilestone asked for and returned.
LookupSound ==
    /\ (cmd = "changelog" /\ pc \in {"listMilestones", "changelog"}) =>
          \A i, j \in 1..Len(calls) : i < j => PagesAsked[i] < PagesAsked[j]
    /\ Returned =>
          IF \E i \in 1..Len(milestones) : milestones[i].title = name
          THEN /\ err = NoErr
               /\ stone \in Range(milestones)
               /\ stone.title = name
          ELSE /\ err = "not found"
               /\ stone = Nil
               /\ IsLastPage(PagesAsked[Len(calls)], Len(milestones))
               /\ \A i \in 1..(Len(calls) - 1) :
                     ~IsLastPage(PagesAsked[i], Len(milestones))

\* C13: over a finite listing in pages that answers without error getMilestone
\* terminates, asks for pages of strictly increasing numbers, returns a
\* milestone of exactly the requested title whenever there is one on any page,
\* open or closed, and returns "not found" only after the page after which the
\* service has no other.
C13_LookupTerminatesAndFinds ==
    /\ []LookupSound
    /\ (pc = "listMilestones") ~> (pc # "listMilestones")

\* A closed milestone was found on the third page.
C13_Witness ==
    /\ Returned
    /\ Len(calls) = 3
    /\ stone # Nil
    /\ stone.state = "closed"

\* C14: the sync asks the service to create the milestone only when no
\* milestone of the given title exists: when one exists no create call is
\* made, whatever the listing calls answered, a listing error included.
C14_NoCreateForExistingTitle ==
    (cmd = "milestone" /\ NumberOf(before.milestones, opt.milestone) # 0) =>
        CallsOf("CreateMilestone") = {}

(***************************************************************************)
(* One command after the other.                                            *)
(***************************************************************************)
\* The command that ran before this one, when there was one.
Earlier == before.prev[1]

\* The command before this one was the milestone command without --dry-run,
\* and none of its calls failed.
AfterCleanSync ==
    /\ before.prev # <<>>
    /\ pc # "idle"
    /\ Earlier.cmd = "milestone"
    /\ ~Earlier.opt.dryRun
    /\ \A i \in 1..Len(Earlier.calls) : Earlier.calls[i].ok

\* The milestone command runs for the second time, with the arguments of the
\* first.
SecondRun == AfterCleanSync /\ cmd = "milestone" /\ opt = Earlier.opt

\* C15: the sync is idempotent: a second run without --dry-run and with the
\* same arguments, right after a first run without remote failure, makes no
\* mutating call and leaves the milestone of every issue as it is.
C15_SecondRunMutatesNothing ==
    SecondRun =>
        /\ \A i \in 1..Len(calls) : calls[i].op \notin Mutating
        /\ \A n \in DOMAIN issues : issues[n].milestone = before.issues[n].milestone

\* C16: after a sync without --dry-run and without failure that created the
\* milestone M, the changelog or release command run with the name M looks up
\* the title M and finds that milestone, also when M has a '-'.
C16_SyncedMilestoneFound ==
    ( /\ AfterCleanSync
      /\ cmd \in {"changelog", "release"}
      /\ opt.release = Earlier.opt.milestone
      /\ \E i \in 1..Len(Earlier.calls) : Earlier.calls[i].op = "CreateMilestone"
      /\ pc \in {"changelog", "createRelease"}
      /\ NoFailure )
    => /\ name = opt.release
       /\ stone # Nil
       /\ stone.title = opt.release

====
